---- MODULE Spec2Model ----
(***************************************************************************)
(* The p2p synchronization layer of pathfinder:                            *)
(*   - crates/pathfinder/src/p2p_network.rs : the event dispatcher loop,   *)
(*     the channel-to-response bridge and the head tracker;                *)
(*   - crates/p2p/src/sync.rs : the generic SyncCodec of the six sync      *)
(*     protocols.                                                          *)
(* Spec is the dispatcher, SpecCodec the codec.                            *)
(***************************************************************************)
EXTENDS Integers, Sequences, FiniteSets, TLC

(***************************************************************************)
(* Bounds of the model.                                                    *)
(***************************************************************************)
\* events the network engine emits in one run
MaxEvents == 3
\* items one producer pushes for one request
MaxItems == 2
\* the largest block number a BlockNumber holds (i64::MAX in the code), scaled
MaxNum == 2
MaxBootstrap == 2

VARIABLES
    \* ---- dispatcher (p2p_network.rs) ----
    loop,        \* "Running" | "Stopped" | "Panicked": the spawned loop task
    engineDone,  \* main_loop_handle has completed
    received,    \* number of events the loop has received so far
    pc,          \* position of handle_p2p_event for the current event
    cur,         \* the event being handled (the last one received)
    prod,        \* the producer (sync handler): "none" | "running" | "Ok" | "Err" | "Panicked"
    want,        \* how many items the producer pushes before it ends
    chan,        \* the mpsc::channel(1) between producer and collector
    pushed,      \* the items the producer has pushed onto chan, in order
    items,       \* the Vec collected from the ReceiverStream
    retval,      \* what the last handle_p2p_event call returned: "none" | "Ok" | "Err"
    sent,        \* per response channel token: number of responses sent on it
    response,    \* the response the current handle_p2p_event call handed to p2p_client
    head,        \* the value of the watch channel: <<>> (None) or <<[number, hash]>>
    published,   \* the head values readers were notified of, in order
    \* ---- codec (sync.rs) ----
    protocol,    \* the protocol the SyncCodec is instantiated for
    io,          \* the bytes of the stream not yet read
    eof,         \* the writing side has closed the stream
    clean,       \* the stream holds only what write_request / write_response wrote
    written,     \* the values written and not yet read back, in order
    op,          \* "none" | "read_request" | "read_response"
    cpc,         \* position inside the read operation
    encoded_len, \* the length prefix read by read_response, -1 before
    buf,         \* the contents of buf
    bufCap,      \* the number of bytes buf was allocated with
    result,      \* the io::Result the read operation returned
    readOf,      \* the written value the read operation is reading back, if any
    consumed,    \* the number of bytes the read operation has taken from the stream
    wmode,       \* what was written to the stream: "none" | "request" | "response"
    nwritten,    \* the number of messages written to the stream
    synced,      \* every earlier read of the stream ended at the end of a written message
    \* ---- start (p2p_network.rs) ----
    spc,         \* position of start
    proxy,       \* context.proxy
    bootstrap_addresses, \* context.bootstrap_addresses: per address, whether it names a peer
    boot,        \* number of bootstrap addresses the for loop is through with
    provided,    \* number of capabilities the for loop is through with
    calls,       \* the steps start has taken so far, in order
    started      \* what start returned: "none" | "Ok" | "Err"

dvars == <<loop, engineDone, received, pc, cur, prod, want,
           chan, pushed, items, retval, sent, response, head, published>>

cvars == <<protocol, io, eof, clean, written, op, cpc, encoded_len, buf, bufCap,
           result, readOf, consumed, wmode, nwritten, synced>>

svars == <<spc, proxy, bootstrap_addresses, boot, provided, calls, started>>

vars == <<dvars, cvars, svars>>

(***************************************************************************)
(* Values                                                                  *)
(***************************************************************************)
None == <<>>
Some(x) == <<x>>

\* BlockNumber::MAX
BlockNumberMAX == MaxNum
\* header.number is a u64: the last value stands for the numbers above BlockNumber::MAX
HeaderNumbers == 0..(BlockNumberMAX + 1)
Hashes == {"h1", "h2"}
Items == {"a", "b"}
Tokens == 1..MaxEvents

ListKinds == {"Bodies", "Transactions", "Receipts", "Events"}
IgnoredKinds == {"SyncPeerConnected", "Test"}

\* BlockHeadersResponsePart
HeaderPart(n, h) == [kind |-> "Header", number |-> n, hash |-> h]
FinPart == [kind |-> "Fin", number |-> 0, hash |-> "h1"]
Parts == {HeaderPart(n, h) : n \in HeaderNumbers, h \in Hashes} \cup {FinPart}

\* NewBlock: Header(BlockHeadersResponse { parts }) or another variant
PartsLists == {<<>>} \cup {<<p>> : p \in Parts}
              \cup {<<HeaderPart(BlockNumberMAX, "h2"), p>> : p \in Parts}
NewBlocks == {[variant |-> "Header", parts |-> ps] : ps \in PartsLists}
             \cup {[variant |-> "Id", parts |-> <<>>]}

NoEvent == [type |-> "None", channel |-> 0, new_block |-> [variant |-> "Id", parts |-> <<>>]]
RequestEvent(t, c) == [type |-> t, channel |-> c, new_block |-> [variant |-> "Id", parts |-> <<>>]]
PropagationEvent(nb) == [type |-> "BlockPropagation", channel |-> 0, new_block |-> nb]
OtherEvent(t) == [type |-> t, channel |-> 0, new_block |-> [variant |-> "Id", parts |-> <<>>]]

NoResponse == <<>>

(***************************************************************************)
(* Head tracker: the closure given to tx.send_if_modified                  *)
(***************************************************************************)
\* head.unwrap_or_default().0.get()
current_height(h) == IF h = None THEN 0 ELSE h[1].number

\* header.number > current_height
IsNewer_ge(number, h) == number >= current_height(h)
IsNewer(number, h) == number > current_height(h)

\* BlockNumber::new_or_panic(header.number) returns
new_ok(number) == number <= BlockNumberMAX

\* the first part instead of the last
pop_first(parts) == IF parts = <<>> THEN None ELSE Some(parts[1])

\* parts.pop(): the last part, if any
pop(parts) == IF parts = <<>> THEN None ELSE Some(parts[Len(parts)])

\* the header the BlockPropagation arm looks at, if any
UsableHeader(nb) ==
    IF nb.variant = "Header" /\ pop(nb.parts) # None /\ pop(nb.parts)[1].kind = "Header"
    THEN pop(nb.parts)
    ELSE None

(***************************************************************************)
(* Byte strings, kept as runs of equal bytes: <<[b |-> byte, n |-> count]>> *)
(***************************************************************************)
Bytes1(b) == <<[b |-> b, n |-> 1]>>
Fill(b, n) == IF n = 0 THEN <<>> ELSE <<[b |-> b, n |-> n]>>

RECURSIVE BLen(_)
BLen(s) == IF s = <<>> THEN 0 ELSE s[1].n + BLen(Tail(s))

\* concatenation
Cat(s, t) ==
    IF s # <<>> /\ t # <<>> /\ s[Len(s)].b = t[1].b
    THEN SubSeq(s, 1, Len(s) - 1) \o <<[b |-> t[1].b, n |-> s[Len(s)].n + t[1].n]>> \o Tail(t)
    ELSE s \o t

\* the first k bytes of s (all of s when it is shorter)
RECURSIVE BTake(_, _)
BTake(s, k) ==
    IF k = 0 \/ s = <<>> THEN <<>>
    ELSE IF s[1].n <= k THEN <<s[1]>> \o BTake(Tail(s), k - s[1].n)
    ELSE <<[b |-> s[1].b, n |-> k]>>

\* s without its first k bytes
RECURSIVE BDrop(_, _)
BDrop(s, k) ==
    IF k = 0 \/ s = <<>> THEN s
    ELSE IF s[1].n <= k THEN BDrop(Tail(s), k - s[1].n)
    ELSE <<[b |-> s[1].b, n |-> s[1].n - k]>> \o Tail(s)

(***************************************************************************)
(* Unsigned LEB128, the varint of the length prefix and of protobuf        *)
(***************************************************************************)
RECURSIVE Varint(_)
Varint(v) == IF v < 128 THEN Bytes1(v) ELSE Cat(Bytes1(128 + (v % 128)), Varint(v \div 128))

\* a usize varint takes at most this many bytes
MaxVarintBytes == 10

\* reading a varint from the front of s, i bytes of it being read already
RECURSIVE read_usize(_, _)
read_usize(s, i) ==
    IF i >= MaxVarintBytes THEN [status |-> "Overflow", value |-> 0, used |-> i]
    ELSE IF s = <<>> THEN [status |-> "UnexpectedEof", value |-> 0, used |-> i]
    ELSE LET b == s[1].b IN
         IF b < 128
         THEN IF b = 0 /\ i > 0
              THEN [status |-> "NotMinimal", value |-> 0, used |-> i + 1]
              ELSE [status |-> "Ok", value |-> b, used |-> i + 1]
         ELSE LET r == read_usize(BDrop(s, 1), i + 1) IN
              IF r.status # "Ok" THEN r
              ELSE [status |-> "Ok", value |-> (b - 128) + 128 * r.value, used |-> r.used]

(***************************************************************************)
(* The wire (prost) message and the domain value of a protocol             *)
(***************************************************************************)
\* a wire message: a varint field (tag 0x08) and a bytes field (tag 0x12)
DefaultMessage == [id |-> 0, data |-> <<>>]

\* prost encode_to_vec: fields in tag order, default values left out
encode_to_vec(m) ==
    Cat(IF m.id # 0 THEN Cat(Bytes1(8), Varint(m.id)) ELSE <<>>,
        IF m.data # <<>> THEN Cat(Cat(Bytes1(18), Varint(BLen(m.data))), m.data) ELSE <<>>)

\* prost decode: fields are merged into the message until the buffer is empty
RECURSIVE merge(_, _)
merge(b, m) ==
    IF b = <<>> THEN [status |-> "Ok", msg |-> m]
    ELSE LET tag == b[1].b
             rest == BDrop(b, 1)
             v == read_usize(rest, 0)
         IN  IF tag \notin {8, 18} \/ v.status # "Ok"
             THEN [status |-> "DecodeError", msg |-> DefaultMessage]
             ELSE IF tag = 8
             THEN merge(BDrop(rest, v.used), [m EXCEPT !.id = v.value])
             ELSE IF BLen(rest) - v.used < v.value
             THEN [status |-> "DecodeError", msg |-> DefaultMessage]
             ELSE merge(BDrop(rest, v.used + v.value),
                        [m EXCEPT !.data = BTake(BDrop(rest, v.used), v.value)])

decode(b) == merge(b, DefaultMessage)

\* the kinds of domain value a domain type has
Kinds == {1, 2}

\* ToProtobuf::to_protobuf
to_protobuf(value) == [id |-> value.kind, data |-> value.data]

\* TryFromProtobuf::try_from_protobuf: fails on a message no domain value maps to
try_from_protobuf(m) ==
    IF m.id \in Kinds
    THEN [status |-> "Ok", value |-> [kind |-> m.id, data |-> m.data]]
    ELSE [status |-> "DecodeError", value |-> [kind |-> 0, data |-> <<>>]]

NoValue == [kind |-> 0, data |-> <<>>]

(***************************************************************************)
(* The six protocols and their codecs                                      *)
(***************************************************************************)
PROTOCOLS == {"/starknet/headers/1", "/starknet/state_diffs/1", "/starknet/classes/1",
              "/starknet/transactions/1", "/starknet/receipts/1", "/starknet/events/1"}

ONE_MIB == 1048576
FOUR_MIB == 4 * ONE_MIB

\* the const parameter of each codec type alias
RESPONSE_SIZE_LIMIT(p) == IF p = "/starknet/classes/1" THEN FOUR_MIB ELSE ONE_MIB

\* io.take(ONE_MIB as u64)
RequestCeiling_response(p) == RESPONSE_SIZE_LIMIT(p)
RequestCeiling_unbounded(p) == 16 * ONE_MIB
RequestCeiling(p) == ONE_MIB

\* encoded_len > RESPONSE_SIZE_LIMIT
ExceedsLimit_never(len, limit) == FALSE
ExceedsLimit_ge(len, limit) == len >= limit
ExceedsLimit(len, limit) == len > limit

\* request.to_protobuf().encode_to_vec()
RequestBytes(value) == encode_to_vec(to_protobuf(value))

\* response.to_protobuf().encode_length_delimited_to_vec()
LengthDelimited_raw(data) == data
LengthDelimited(data) == Cat(Varint(BLen(data)), data)
ResponseBytes(value) == LengthDelimited(encode_to_vec(to_protobuf(value)))

\* ProstX::decode(buf.as_ref())?, X::try_from_protobuf(prost_dto, ..)?
DecodeDto(b) ==
    LET d == decode(b) IN
    IF d.status # "Ok" THEN [status |-> "DecodeError", value |-> NoValue]
    ELSE try_from_protobuf(d.msg)

(***************************************************************************)
(* The values written and the streams a peer may send                      *)
(***************************************************************************)
\* responses written back to back on one stream
MaxMsgs == 2

\* the number of data bytes with which a value encodes to len bytes
DataSizeFor(len) ==
    CHOOSE n \in (len - 8)..len :
        BLen(encode_to_vec([id |-> 1, data |-> Fill(170, n)])) = len

\* data sizes: small ones, and those that encode to a limit and to one byte more
DataSizes == {0, 3} \cup {DataSizeFor(len) : len \in {ONE_MIB, ONE_MIB + 1, FOUR_MIB, FOUR_MIB + 1}}
Values == {[kind |-> k, data |-> Fill(170, n)] : k \in Kinds, n \in DataSizes}

\* declared lengths a peer may send
DeclaredLens == {0, 5, ONE_MIB, ONE_MIB + 1, FOUR_MIB, FOUR_MIB + 1}

\* streams received from a peer: a length prefix followed by any number of
\* bytes, broken prefixes, and raw bytes longer than the request ceiling
PeerStreams ==
    {Cat(Varint(len), Fill(0, a)) : len \in DeclaredLens, a \in {0, 5, FOUR_MIB + 1}}
    \cup {Fill(128, 1), Fill(128, MaxVarintBytes + 1), Cat(Fill(128, 2), Bytes1(0))}
    \cup {Cat(RequestBytes(v), Fill(0, a)) : v \in Values, a \in {1, ONE_MIB}}

NoResult == [status |-> "none", value |-> NoValue]

(***************************************************************************)
(* Init of the dispatcher: the state when the loop task is spawned         *)
(***************************************************************************)
InitDispatcher ==
    /\ loop = "Running"
    /\ engineDone = FALSE
    /\ received = 0
    /\ pc = "idle"
    /\ cur = NoEvent
    /\ prod = "none"
    /\ want = 0
    /\ chan = <<>>
    /\ pushed = <<>>
    /\ items = <<>>
    /\ retval = "none"
    /\ sent = [t \in Tokens |-> 0]
    /\ response = NoResponse
    /\ head = None
    /\ published = <<>>

\* the codec before any stream is opened
CodecIdle ==
    /\ protocol = "/starknet/headers/1"
    /\ io = <<>>
    /\ eof = FALSE
    /\ clean = TRUE
    /\ written = <<>>
    /\ op = "none"
    /\ cpc = "idle"
    /\ encoded_len = -1
    /\ buf = <<>>
    /\ bufCap = 0
    /\ result = NoResult
    /\ readOf = None
    /\ consumed = 0
    /\ wmode = "none"
    /\ nwritten = 0
    /\ synced = TRUE

\* one step of start: the call made and the bootstrap address or capability it is for
Call(name, at) == [call |-> name, at |-> at]

\* start has returned Ok for a node that is no proxy and has no bootstrap address
StartReturned ==
    /\ spc = "returned"
    /\ proxy = FALSE
    /\ bootstrap_addresses = <<>>
    /\ boot = 0
    /\ provided = 2
    /\ calls = <<Call("start_listening", 0), Call("subscribe_topic", 0),
                 Call("provide_capability", 1), Call("provide_capability", 2)>>
    /\ started = "Ok"

Init == InitDispatcher /\ CodecIdle /\ StartReturned

(***************************************************************************)
(* The network engine (p2p_main_loop.run()), the source of events          *)
(***************************************************************************)
EngineComplete ==
    /\ ~engineDone
    /\ engineDone' = TRUE
    /\ UNCHANGED <<loop, received, pc, cur, prod, want, chan,
                   pushed, items, retval, sent, response, head, published>>
    /\ UNCHANGED cvars
    /\ UNCHANGED svars

(***************************************************************************)
(* The loop: tokio::select! over main_loop_handle and p2p_events.recv()    *)
(***************************************************************************)
AtSelect == loop = "Running" /\ pc = "idle"

\* _ = &mut main_loop_handle => break
LoopBreak ==
    /\ AtSelect
    /\ engineDone
    /\ loop' = "Stopped"
    /\ UNCHANGED <<engineDone, received, pc, cur, prod, want,
                   chan, pushed, items, retval, sent, response, head, published>>
    /\ UNCHANGED cvars
    /\ UNCHANGED svars

\* Some(event) = p2p_events.recv(): the engine has sent an event, the loop takes it
Recv(event) ==
    /\ AtSelect
    /\ received < MaxEvents
    /\ received' = received + 1
    /\ cur' = event
    /\ response' = NoResponse
    /\ UNCHANGED <<engineDone>>

\* how a sync handler ends: it returns Ok(()), returns Err(_) or panics
Outcomes == {"Ok", "Err", "Panicked"}

\* the sync handler started for a request: it will push n items, then end
StartProducer(n) ==
    /\ prod' = "running"
    /\ want' = n
    /\ chan' = <<>>
    /\ pushed' = <<>>
    /\ items' = <<>>
    /\ retval' = "none"

\* the arms that start no sync handler
NoProducer ==
    /\ prod' = "none"
    /\ want' = 0
    /\ chan' = <<>>
    /\ pushed' = <<>>
    /\ items' = <<>>

\* InboundHeadersSyncRequest: mpsc::channel(1), then get_headers is awaited inline
RecvHeaders(n) ==
    /\ Recv(RequestEvent("Headers", received + 1))
    /\ StartProducer(n)
    /\ pc' = "get_headers"
    /\ UNCHANGED <<loop, sent, head, published>>
    /\ UNCHANGED cvars
    /\ UNCHANGED svars

\* Inbound{Bodies,Transactions,Receipts,Events}SyncRequest: mpsc::channel(1),
\* tokio::spawn of the handler, then resp_stream.collect()
RecvList(kind, n) ==
    /\ Recv(RequestEvent(kind, received + 1))
    /\ StartProducer(n)
    /\ pc' = "collect"
    /\ UNCHANGED <<loop, sent, head, published>>
    /\ UNCHANGED cvars
    /\ UNCHANGED svars

\* the closure's return value: true iff the head was replaced
Modified_always(replaced) == TRUE
Modified(replaced) == replaced

\* BlockPropagation: no await inside, the arm runs to its end
RecvBlockPropagation(nb) ==
    /\ Recv(PropagationEvent(nb))
    /\ LET header == UsableHeader(nb) IN
       IF header # None
       THEN IF IsNewer(header[1].number, head)
            THEN IF new_ok(header[1].number)
                 THEN /\ head' = Some([number |-> header[1].number, hash |-> header[1].hash])
                      /\ published' = IF Modified(TRUE) THEN Append(published, head')
                                                        ELSE published
                      /\ retval' = "Ok"
                      /\ UNCHANGED loop
                 ELSE \* new_or_panic panics inside the closure: the loop task unwinds
                      /\ loop' = "Panicked"
                      /\ retval' = "none"
                      /\ UNCHANGED <<head, published>>
            ELSE /\ head' = head
                 /\ published' = IF Modified(FALSE) THEN Append(published, head')
                                                    ELSE published
                 /\ retval' = "Ok"
                 /\ UNCHANGED loop
       ELSE /\ retval' = "Ok"
            /\ UNCHANGED <<loop, head, published>>
    /\ NoProducer
    /\ UNCHANGED <<pc, sent>>
    /\ UNCHANGED cvars
    /\ UNCHANGED svars

\* SyncPeerConnected | Test: ignored
RecvIgnored(kind) ==
    /\ Recv(OtherEvent(kind))
    /\ retval' = "Ok"
    /\ NoProducer
    /\ UNCHANGED <<loop, pc, sent, head, published>>
    /\ UNCHANGED cvars
    /\ UNCHANGED svars

(***************************************************************************)
(* The sync handler of sync_handlers::v1, the producer of a request        *)
(***************************************************************************)
\* a channel with room for two items
ChannelCapacity_two == 1 + 1

\* mpsc::channel(1)
ChannelCapacity == 1

\* tx.send(item).await on the capacity-1 channel: completes when there is room
ProducerSend(item) ==
    /\ loop = "Running"
    /\ prod = "running"
    /\ Len(pushed) < want
    /\ Len(chan) < ChannelCapacity
    /\ chan' = Append(chan, item)
    /\ pushed' = Append(pushed, item)
    /\ UNCHANGED <<loop, engineDone, received, pc, cur, prod, want,
                   items, retval, sent, response, head, published>>
    /\ UNCHANGED cvars
    /\ UNCHANGED svars

\* the spawned handler ends (returns Ok, returns Err or panics): resp_tx is dropped
ProducerFinish(outcome) ==
    /\ loop = "Running"
    /\ pc = "collect"
    /\ prod = "running"
    /\ Len(pushed) = want
    /\ prod' = outcome
    /\ UNCHANGED <<loop, engineDone, received, pc, cur, want,
                   chan, pushed, items, retval, sent, response, head, published>>
    /\ UNCHANGED cvars
    /\ UNCHANGED svars

(***************************************************************************)
(* p2p_client.send_*_sync_response(channel, response)                      *)
(***************************************************************************)
SendResponse(channel, payload) ==
    /\ sent' = [sent EXCEPT ![channel] = @ + 1]
    /\ response' = Some([channel |-> channel, items |-> payload])

(***************************************************************************)
(* The bridge of a list request: collect, join, send                       *)
(***************************************************************************)
\* one item taken by resp_stream.collect()
Collect_front(collected, item) == <<item>> \o collected
Collect(collected, item) == Append(collected, item)

CollectorTake ==
    /\ loop = "Running"
    /\ pc = "collect"
    /\ chan # <<>>
    /\ items' = Collect(items, Head(chan))
    /\ chan' = Tail(chan)
    /\ UNCHANGED <<loop, engineDone, received, pc, cur, prod, want,
                   pushed, retval, sent, response, head, published>>
    /\ UNCHANGED cvars
    /\ UNCHANGED svars

\* the stream ends: the channel is empty and its sender is dropped
CollectorEnd ==
    /\ loop = "Running"
    /\ pc = "collect"
    /\ chan = <<>>
    /\ prod # "running"
    /\ pc' = "join"
    /\ UNCHANGED <<loop, engineDone, received, cur, prod, want,
                   chan, pushed, items, retval, sent, response, head, published>>
    /\ UNCHANGED cvars
    /\ UNCHANGED svars

\* match jh.await: every arm (logging or not) falls through to the send
JoinContinues_ok_only(joined) == joined = "Ok"
JoinContinues(joined) == joined \in {"Ok", "Err", "Panicked"}

Join ==
    /\ loop = "Running"
    /\ pc = "join"
    /\ IF JoinContinues(prod)
       THEN pc' = "send" /\ retval' = retval
       ELSE pc' = "idle" /\ retval' = "Err"
    /\ UNCHANGED <<loop, engineDone, received, cur, prod, want,
                   chan, pushed, items, sent, response, head, published>>
    /\ UNCHANGED cvars
    /\ UNCHANGED svars

\* send_{bodies,transactions,receipts,events}_sync_response, then Ok(())
SendListResponse ==
    /\ loop = "Running"
    /\ pc = "send"
    /\ SendResponse(cur.channel, items)
    /\ pc' = "idle"
    /\ retval' = "Ok"
    /\ UNCHANGED <<loop, engineDone, received, cur, prod, want,
                   chan, pushed, items, head, published>>
    /\ UNCHANGED cvars
    /\ UNCHANGED svars

(***************************************************************************)
(* The headers request: get_headers(..).await?, then rep_rx.recv()         *)
(***************************************************************************)
\* get_headers ends: Ok goes on to the receive, Err leaves through `?`,
\* a panic unwinds the loop task it runs in
HeadersHandlerReturn(outcome) ==
    /\ loop = "Running"
    /\ pc = "get_headers"
    /\ prod = "running"
    /\ Len(pushed) = want
    /\ prod' = outcome
    /\ CASE outcome = "Ok" -> pc' = "headers_recv" /\ UNCHANGED <<loop, retval>>
         [] outcome = "Err" -> pc' = "idle" /\ retval' = "Err" /\ UNCHANGED loop
         [] outcome = "Panicked" -> loop' = "Panicked" /\ UNCHANGED <<pc, retval>>
    /\ UNCHANGED <<engineDone, received, cur, want, chan,
                   pushed, items, sent, response, head, published>>
    /\ UNCHANGED cvars
    /\ UNCHANGED svars

\* rep_rx.recv().await.expect("sender is not dropped"), send_headers_sync_response
HeadersRecvSend ==
    /\ loop = "Running"
    /\ pc = "headers_recv"
    /\ IF chan # <<>>
       THEN /\ SendResponse(cur.channel, <<Head(chan)>>)
            /\ chan' = Tail(chan)
            /\ pc' = "idle"
            /\ retval' = "Ok"
            /\ UNCHANGED loop
       ELSE \* recv() is None, the sender being dropped: expect panics
            /\ loop' = "Panicked"
            /\ UNCHANGED <<pc, chan, retval, sent, response>>
    /\ UNCHANGED <<engineDone, received, cur, prod, want,
                   pushed, items, head, published>>
    /\ UNCHANGED cvars
    /\ UNCHANGED svars

(***************************************************************************)
(* The dispatcher                                                          *)
(***************************************************************************)
Next ==
    \/ EngineComplete
    \/ LoopBreak
    \/ \E n \in 0..MaxItems : RecvHeaders(n)
    \/ \E kind \in ListKinds, n \in 0..MaxItems : RecvList(kind, n)
    \/ \E nb \in NewBlocks : RecvBlockPropagation(nb)
    \/ \E kind \in IgnoredKinds : RecvIgnored(kind)
    \/ \E item \in Items : ProducerSend(item)
    \/ \E o \in Outcomes : ProducerFinish(o)
    \/ CollectorTake
    \/ CollectorEnd
    \/ Join
    \/ SendListResponse
    \/ \E o \in Outcomes : HeadersHandlerReturn(o)
    \/ HeadersRecvSend

Spec == Init /\ [][Next]_vars

(***************************************************************************)
(* SyncCodec: a stream is opened for one protocol, either empty and then   *)
(* written by write_request / write_response, or holding a peer's bytes    *)
(***************************************************************************)
InitCodec ==
    /\ InitDispatcher
    /\ StartReturned
    /\ protocol \in PROTOCOLS
    /\ \/ io = <<>> /\ clean = TRUE /\ eof = FALSE
       \/ io \in PeerStreams /\ clean = FALSE /\ eof = TRUE
    /\ written = <<>>
    /\ op = "none"
    /\ cpc = "idle"
    /\ encoded_len = -1
    /\ buf = <<>>
    /\ bufCap = 0
    /\ result = NoResult
    /\ readOf = None
    /\ consumed = 0
    /\ wmode = "none"
    /\ nwritten = 0
    /\ synced = TRUE

NoReadRunning == cpc \in {"idle", "done"}

\* write_request: the encoded request, no length prefix
write_request(request) ==
    /\ NoReadRunning
    /\ clean /\ ~eof
    /\ wmode = "none"
    /\ io' = Cat(io, RequestBytes(request))
    /\ written' = Append(written, request)
    /\ wmode' = "request"
    /\ nwritten' = nwritten + 1
    /\ UNCHANGED <<protocol, eof, clean, op, cpc, encoded_len, buf, bufCap, result,
                   readOf, consumed, synced>>
    /\ UNCHANGED dvars
    /\ UNCHANGED svars

\* write_response: the encoded response behind its length prefix
write_response(resp) ==
    /\ NoReadRunning
    /\ clean /\ ~eof
    /\ wmode \in {"none", "response"}
    /\ nwritten < MaxMsgs
    /\ io' = Cat(io, ResponseBytes(resp))
    /\ written' = Append(written, resp)
    /\ wmode' = "response"
    /\ nwritten' = nwritten + 1
    /\ UNCHANGED <<protocol, eof, clean, op, cpc, encoded_len, buf, bufCap, result,
                   readOf, consumed, synced>>
    /\ UNCHANGED dvars
    /\ UNCHANGED svars

\* the writing side closes the stream
CloseStream ==
    /\ clean /\ ~eof
    /\ wmode # "none"
    /\ eof' = TRUE
    /\ UNCHANGED <<protocol, io, clean, written, op, cpc, encoded_len, buf, bufCap,
                   result, readOf, consumed, wmode, nwritten, synced>>
    /\ UNCHANGED dvars
    /\ UNCHANGED svars

\* a read operation begins: on a written stream it reads back the oldest value,
\* on a peer's stream it is the one read of that stream
BeginRead(name, mode) ==
    /\ NoReadRunning
    /\ IF clean THEN wmode = mode /\ written # <<>> ELSE cpc = "idle"
    /\ op' = name
    /\ readOf' = IF clean THEN Some(Head(written)) ELSE None
    /\ written' = IF clean THEN Tail(written) ELSE written
    /\ synced' = (synced /\ result.status \in {"none", "Ok"})
    /\ UNCHANGED <<protocol, eof, clean, wmode, nwritten>>

\* read_request: io.take(ONE_MIB).read_to_end(&mut buf) ends at the end of the
\* stream or after the ceiling
read_request_read ==
    /\ BeginRead("read_request", "request")
    /\ eof \/ BLen(io) >= RequestCeiling(protocol)
    /\ buf' = BTake(io, RequestCeiling(protocol))
    /\ bufCap' = BLen(buf')
    /\ consumed' = BLen(buf')
    /\ io' = BDrop(io, RequestCeiling(protocol))
    /\ encoded_len' = -1
    /\ result' = NoResult
    /\ cpc' = "rq_decode"
    /\ UNCHANGED dvars
    /\ UNCHANGED svars

\* read_request: decode and convert
read_request_decode ==
    /\ cpc = "rq_decode"
    /\ result' = DecodeDto(buf)
    /\ cpc' = "done"
    /\ UNCHANGED <<protocol, io, eof, clean, written, op, encoded_len, buf, bufCap,
                   readOf, consumed, wmode, nwritten, synced>>
    /\ UNCHANGED dvars
    /\ UNCHANGED svars

\* read_response: unsigned_varint::aio::read_usize(&mut io)
read_response_len ==
    /\ BeginRead("read_response", "response")
    /\ LET v == read_usize(io, 0) IN
       /\ v.status = "UnexpectedEof" => eof
       /\ io' = BDrop(io, v.used)
       /\ consumed' = IF v.used <= BLen(io) THEN v.used ELSE BLen(io)
       /\ IF v.status = "Ok"
          THEN /\ encoded_len' = v.value
               /\ result' = NoResult
               /\ cpc' = "rs_check"
          ELSE /\ encoded_len' = -1
               /\ result' = [status |-> IF v.status = "UnexpectedEof" THEN "Transport"
                                                                     ELSE "LengthDecode",
                             value |-> NoValue]
               /\ cpc' = "done"
    /\ buf' = <<>>
    /\ bufCap' = 0
    /\ UNCHANGED dvars
    /\ UNCHANGED svars

\* read_response: if encoded_len > RESPONSE_SIZE_LIMIT { return Err(InvalidData) }
read_response_check ==
    /\ cpc = "rs_check"
    /\ IF ExceedsLimit(encoded_len, RESPONSE_SIZE_LIMIT(protocol))
       THEN result' = [status |-> "SizeLimit", value |-> NoValue] /\ cpc' = "done"
       ELSE result' = result /\ cpc' = "rs_alloc"
    /\ UNCHANGED <<protocol, io, eof, clean, written, op, encoded_len, buf, bufCap,
                   readOf, consumed, wmode, nwritten, synced>>
    /\ UNCHANGED dvars
    /\ UNCHANGED svars

\* a buffer one byte shorter than asked for
vec_short(len) == Fill(0, IF len > 0 THEN len - 1 ELSE 0)

\* vec![0u8; len]
vec(len) == Fill(0, len)

\* read_response: let mut buf = vec![0u8; encoded_len]
read_response_alloc ==
    /\ cpc = "rs_alloc"
    /\ buf' = vec(encoded_len)
    /\ bufCap' = BLen(buf')
    /\ cpc' = "rs_read"
    /\ UNCHANGED <<protocol, io, eof, clean, written, op, encoded_len, result,
                   readOf, consumed, wmode, nwritten, synced>>
    /\ UNCHANGED dvars
    /\ UNCHANGED svars

\* read_response: io.read_exact(&mut buf) fills buf or fails at the end of the stream
read_response_read_exact ==
    /\ cpc = "rs_read"
    /\ BLen(io) >= BLen(buf) \/ eof
    /\ IF BLen(io) >= BLen(buf)
       THEN /\ buf' = BTake(io, BLen(buf))
            /\ result' = result
            /\ cpc' = "rs_decode"
       ELSE /\ buf' = Cat(io, Fill(0, BLen(buf) - BLen(io)))
            /\ result' = [status |-> "Transport", value |-> NoValue]
            /\ cpc' = "done"
    /\ consumed' = consumed + BLen(BTake(io, BLen(buf)))
    /\ io' = BDrop(io, BLen(buf))
    /\ UNCHANGED <<protocol, eof, clean, written, op, encoded_len, bufCap,
                   readOf, wmode, nwritten, synced>>
    /\ UNCHANGED dvars
    /\ UNCHANGED svars

\* read_response: decode and convert
read_response_decode ==
    /\ cpc = "rs_decode"
    /\ result' = DecodeDto(buf)
    /\ cpc' = "done"
    /\ UNCHANGED <<protocol, io, eof, clean, written, op, encoded_len, buf, bufCap,
                   readOf, consumed, wmode, nwritten, synced>>
    /\ UNCHANGED dvars
    /\ UNCHANGED svars

NextCodec ==
    \/ \E request \in Values : write_request(request)
    \/ \E resp \in Values : write_response(resp)
    \/ CloseStream
    \/ read_request_read
    \/ read_request_decode
    \/ read_response_len
    \/ read_response_check
    \/ read_response_alloc
    \/ read_response_read_exact
    \/ read_response_decode

SpecCodec == InitCodec /\ [][NextCodec]_vars

(***************************************************************************)
(* start: the startup sequence, until the loop task is spawned             *)
(***************************************************************************)
\* a bootstrap multiaddr either has a P2p(peer id) component or has none
AddressShapes == {"with_peer_id", "without_peer_id"}

RECURSIVE AddressLists(_)
AddressLists(n) ==
    IF n = 0 THEN {<<>>}
    ELSE AddressLists(n - 1)
         \cup {Append(l, a) : l \in {m \in AddressLists(n - 1) : Len(m) = n - 1},
                              a \in AddressShapes}

capabilities == <<"core/block-propagate/1", "core/blocks-sync/1">>

\* start is entered: the engine task is spawned, the loop task is not yet
InitStart ==
    /\ loop = "NotSpawned"
    /\ engineDone = FALSE
    /\ received = 0
    /\ pc = "idle"
    /\ cur = NoEvent
    /\ prod = "none"
    /\ want = 0
    /\ chan = <<>>
    /\ pushed = <<>>
    /\ items = <<>>
    /\ retval = "none"
    /\ sent = [t \in Tokens |-> 0]
    /\ response = NoResponse
    /\ head = None
    /\ published = <<>>
    /\ CodecIdle
    /\ spc = "listen"
    /\ proxy \in BOOLEAN
    /\ bootstrap_addresses \in AddressLists(MaxBootstrap)
    /\ boot = 0
    /\ provided = 0
    /\ calls = <<>>
    /\ started = "none"

\* the `?` after a failed step: start returns the error
ReturnErr ==
    /\ started' = "Err"
    /\ spc' = "returned"

\* where the for loop over bootstrap_addresses goes on after b addresses
AfterBootstrap(b) == IF b < Len(bootstrap_addresses) THEN "peer_id" ELSE "subscribe"

\* p2p_client.start_listening(listen_on).await.context(..)?
StartListening(ok) ==
    /\ spc = "listen"
    /\ calls' = Append(calls, Call("start_listening", 0))
    /\ IF ok THEN spc' = AfterBootstrap(boot) /\ UNCHANGED started
             ELSE ReturnErr
    /\ UNCHANGED <<proxy, bootstrap_addresses, boot, provided>>
    /\ UNCHANGED dvars
    /\ UNCHANGED cvars

\* bootstrap_address.iter().find_map(P2p(h) => ..).ok_or_else(..)?
ExtractPeerId ==
    /\ spc = "peer_id"
    /\ calls' = Append(calls, Call("peer_id", boot + 1))
    /\ IF bootstrap_addresses[boot + 1] = "with_peer_id"
       THEN spc' = "dial" /\ UNCHANGED started
       ELSE ReturnErr
    /\ UNCHANGED <<proxy, bootstrap_addresses, boot, provided>>
    /\ UNCHANGED dvars
    /\ UNCHANGED cvars

\* p2p_client.dial(peer_id, bootstrap_address.clone()).await?
Dial(ok) ==
    /\ spc = "dial"
    /\ calls' = Append(calls, Call("dial", boot + 1))
    /\ IF ok THEN spc' = "relay" /\ UNCHANGED started
             ELSE ReturnErr
    /\ UNCHANGED <<proxy, bootstrap_addresses, boot, provided>>
    /\ UNCHANGED dvars
    /\ UNCHANGED cvars

\* p2p_client.start_listening(bootstrap_address.with(P2pCircuit)).await.context(..)?
StartRelayListener(ok) ==
    /\ spc = "relay"
    /\ calls' = Append(calls, Call("start_listening_relay", boot + 1))
    /\ IF ok THEN /\ boot' = boot + 1
                  /\ spc' = AfterBootstrap(boot + 1)
                  /\ UNCHANGED started
             ELSE /\ ReturnErr
                  /\ UNCHANGED boot
    /\ UNCHANGED <<proxy, bootstrap_addresses, provided>>
    /\ UNCHANGED dvars
    /\ UNCHANGED cvars

\* a node that is a proxy subscribes to every topic, too
Subscribes_always(p) == TRUE

\* if !proxy
Subscribes(p) == ~p

\* if !proxy { p2p_client.subscribe_topic(&block_propagation_topic).await?; }
SubscribeTopic(ok) ==
    /\ spc = "subscribe"
    /\ IF Subscribes(proxy)
       THEN /\ calls' = Append(calls, Call("subscribe_topic", 0))
            /\ IF ok THEN spc' = "capability" /\ UNCHANGED started
                     ELSE ReturnErr
       ELSE /\ ok
            /\ spc' = "capability"
            /\ UNCHANGED <<calls, started>>
    /\ UNCHANGED <<proxy, bootstrap_addresses, boot, provided>>
    /\ UNCHANGED dvars
    /\ UNCHANGED cvars

\* for capability in capabilities { p2p_client.provide_capability(capability).await? }
ProvideCapability(ok) ==
    /\ spc = "capability"
    /\ calls' = Append(calls, Call("provide_capability", provided + 1))
    /\ IF ok THEN /\ provided' = provided + 1
                  /\ spc' = IF provided + 1 < Len(capabilities) THEN "capability"
                                                                ELSE "spawn"
                  /\ UNCHANGED started
             ELSE /\ ReturnErr
                  /\ UNCHANGED provided
    /\ UNCHANGED <<proxy, bootstrap_addresses, boot>>
    /\ UNCHANGED dvars
    /\ UNCHANGED cvars

\* watch::channel(None), tokio::task::spawn of the loop, Ok((.., join_handle))
SpawnLoop ==
    /\ spc = "spawn"
    /\ loop' = "Running"
    /\ head' = None
    /\ started' = "Ok"
    /\ spc' = "returned"
    /\ UNCHANGED <<engineDone, received, pc, cur, prod, want, chan,
                   pushed, items, retval, sent, response, published>>
    /\ UNCHANGED <<proxy, bootstrap_addresses, boot, provided, calls>>
    /\ UNCHANGED cvars

\* start, the engine task spawned at its beginning, and the loop it spawns at
\* its end taking events it has nothing to do for
NextStart ==
    \/ \E ok \in BOOLEAN : StartListening(ok)
    \/ ExtractPeerId
    \/ \E ok \in BOOLEAN : Dial(ok)
    \/ \E ok \in BOOLEAN : StartRelayListener(ok)
    \/ \E ok \in BOOLEAN : SubscribeTopic(ok)
    \/ \E ok \in BOOLEAN : ProvideCapability(ok)
    \/ SpawnLoop
    \/ EngineComplete
    \/ LoopBreak
    \/ \E kind \in IgnoredKinds : RecvIgnored(kind)

SpecStart == InitStart /\ [][NextStart]_vars

(***************************************************************************)
(* Properties of the head tracker                                          *)
(***************************************************************************)
IsRequest(event) == event.type \in ListKinds \cup {"Headers"}
IsListRequest(event) == event.type \in ListKinds

\* the header a received block propagation carried, if any
CurHeader == IF cur.type = "BlockPropagation" THEN UsableHeader(cur.new_block) ELSE None

\* C1: the head values published to readers are strictly increasing in block
\* number, and the head is always the last value published: a stale, duplicate
\* or out-of-order announcement never replaces it.
C1_HeadMonotonic ==
    /\ \A i \in 1..Len(published) : published[i] # None
    /\ \A i \in 1..(Len(published) - 1) :
          published[i + 1][1].number > published[i][1].number
    /\ head = IF published = <<>> THEN None ELSE published[Len(published)]

\* two heads were published, then an older announcement arrived and was dropped
C1_Witness ==
    /\ Len(published) = 2
    /\ received = 3
    /\ CurHeader # None
    /\ CurHeader[1].number < head[1].number
    /\ loop = "Running"

\* C2: with the head unset, a block propagation carrying a header with any block
\* number a BlockNumber can hold, block 0 included, sets the head to that
\* (number, hash) and notifies the readers.
C2_UnsetHeadTakesAnyBlock ==
    [][\A nb \in NewBlocks :
          (/\ head = None
           /\ RecvBlockPropagation(nb)
           /\ UsableHeader(nb) # None
           /\ new_ok(UsableHeader(nb)[1].number))
          => /\ head' = Some([number |-> UsableHeader(nb)[1].number,
                              hash |-> UsableHeader(nb)[1].hash])
             /\ published' = Append(published, head')]_vars

\* C3: with the head at block c, a block propagation whose header number is <= c
\* leaves the head (number and hash) as it is and notifies nobody; readers are
\* notified in a step if and only if that step replaced the head.
C3_StaleLeavesHead ==
    [][/\ \A nb \in NewBlocks :
            (/\ head # None
             /\ RecvBlockPropagation(nb)
             /\ UsableHeader(nb) # None
             /\ UsableHeader(nb)[1].number <= head[1].number)
            => (head' = head /\ published' = published)
       /\ (published' # published) <=> (head' # head)]_vars

\* an announcement of the head's own block number under another hash was dropped
C3_Witness ==
    /\ head # None
    /\ CurHeader # None
    /\ CurHeader[1].number = head[1].number
    /\ CurHeader[1].hash # head[1].hash
    /\ published = <<head>>
    /\ received = 2
    /\ retval = "Ok"

(***************************************************************************)
(* Properties of the bridge and of the responses                           *)
(***************************************************************************)
\* C8: for a list request, nothing pushed onto the channel is lost, duplicated
\* or reordered on its way to the collected Vec, and the one response sent is
\* exactly the sequence of pushed items, on the request's own channel.
C8_ResponseIsPushedSequence ==
    IsListRequest(cur) =>
        /\ pc \in {"collect", "join", "send"} => items \o chan = pushed
        /\ response # NoResponse =>
              /\ response = Some([channel |-> cur.channel, items |-> pushed])
              /\ sent[cur.channel] = 1

\* a response of two different items, in the order they were pushed
C8_Witness ==
    /\ IsListRequest(cur)
    /\ pushed = <<"b", "a">>
    /\ response = Some([channel |-> cur.channel, items |-> <<"b", "a">>])
    /\ prod = "Ok"

\* C9: when the producer of a list request has pushed its k items and then
\* failed (returned Err or panicked), the handler call still sends a response
\* of exactly those k items, returns Ok, and the loop is left able to go on.
C9_FailedProducerStillAnswered ==
    (IsListRequest(cur) /\ prod \in {"Err", "Panicked"}) =>
        /\ loop # "Panicked"
        /\ pc \in {"collect", "join", "send", "idle"}
        /\ pc = "idle" =>
              /\ response = Some([channel |-> cur.channel, items |-> pushed])
              /\ Len(pushed) = want
              /\ retval = "Ok"
              /\ sent[cur.channel] = 1
              /\ (loop = "Running" /\ received < MaxEvents) =>
                    ENABLED (\E kind \in IgnoredKinds : RecvIgnored(kind))

\* the producer panicked after one item, the item was sent and the loop runs
C9_Witness ==
    /\ IsListRequest(cur)
    /\ prod = "Panicked"
    /\ pc = "idle"
    /\ loop = "Running"
    /\ response = Some([channel |-> cur.channel, items |-> <<"a">>])

\* C10: once the handler call of a sync request (headers or list) is over,
\* however the producer ended, exactly one response has been sent on the
\* request's channel; no channel ever gets two responses.
C10_ExactlyOneResponse ==
    /\ \A t \in Tokens : sent[t] <= 1
    /\ (IsRequest(cur) /\ (pc = "idle" \/ loop = "Panicked")) => sent[cur.channel] = 1

(***************************************************************************)
(* Properties of the codec                                                 *)
(***************************************************************************)
\* C4: in read_response, for every protocol, a declared length above the
\* protocol's limit ends in the size-limit error with no buffer allocated and
\* no byte read beyond the length prefix; no buffer above the limit is ever
\* allocated.
C4_SizeCheckBeforeAllocation ==
    op = "read_response" =>
        /\ bufCap <= RESPONSE_SIZE_LIMIT(protocol)
        /\ encoded_len > RESPONSE_SIZE_LIMIT(protocol) =>
              /\ bufCap = 0
              /\ buf = <<>>
              /\ consumed = BLen(Varint(encoded_len))
              /\ cpc \in {"rs_check", "done"}
              /\ cpc = "done" => result.status = "SizeLimit"

\* a peer declares 4 MiB + 1 to a 1 MiB protocol: rejected, the payload unread
C4_Witness ==
    /\ op = "read_response"
    /\ protocol = "/starknet/headers/1"
    /\ encoded_len = 4 * 1024 * 1024 + 1
    /\ cpc = "done"
    /\ result.status = "SizeLimit"
    /\ BLen(io) = 4 * 1024 * 1024 + 1

\* the limits as the specification states them
StatedLimit(p) == IF p = "/starknet/classes/1" THEN 4194304 ELSE 1048576

\* C5: read_response passes the size check iff the declared length is at most
\* the limit, 4194304 for classes and 1048576 for the other five protocols.
C5_ExactPerProtocolLimit ==
    (op = "read_response" /\ encoded_len >= 0) =>
        /\ cpc \in {"rs_alloc", "rs_read", "rs_decode"} => encoded_len <= StatedLimit(protocol)
        /\ cpc = "done" =>
              (result.status = "SizeLimit" <=> encoded_len > StatedLimit(protocol))

\* a classes response of exactly 4 MiB was read back
C5_Witness ==
    /\ op = "read_response"
    /\ protocol = "/starknet/classes/1"
    /\ encoded_len = 4194304
    /\ cpc = "done"
    /\ result.status = "Ok"

\* C6: read_request never holds more than 1 MiB of the stream in its buffer,
\* for any protocol, classes with its 4 MiB response limit included.
C6_RequestCeilingFixed ==
    op = "read_request" =>
        /\ BLen(buf) <= 1048576
        /\ bufCap <= 1048576
        /\ consumed <= 1048576

\* a classes request stream longer than 1 MiB: 1 MiB buffered, the rest left
C6_Witness ==
    /\ op = "read_request"
    /\ protocol = "/starknet/classes/1"
    /\ BLen(buf) = 1048576
    /\ BLen(io) > 0

\* a read of a written stream is over, the earlier reads having succeeded
ReadBackDone == clean /\ synced /\ cpc = "done" /\ readOf # None

\* C7 as stated: reading back what write_request / write_response wrote yields
\* the value written, for every value.
C7_RoundTripEveryValue ==
    ReadBackDone => result = [status |-> "Ok", value |-> readOf[1]]

\* the encoding of the value being read back fits the ceiling of its direction
FitsCeiling ==
    IF op = "read_request"
    THEN BLen(encode_to_vec(to_protobuf(readOf[1]))) <= ONE_MIB
    ELSE BLen(encode_to_vec(to_protobuf(readOf[1]))) <= RESPONSE_SIZE_LIMIT(protocol)

\* C7 amended: the round trip holds for every request whose encoding is at most
\* 1 MiB and every response whose encoding is at most the protocol's limit.
C7_RoundTripWithinCeiling ==
    (ReadBackDone /\ FitsCeiling) => result = [status |-> "Ok", value |-> readOf[1]]

\* the second of two responses written back to back was read back
C7_Witness ==
    /\ ReadBackDone
    /\ op = "read_response"
    /\ nwritten = 2
    /\ written = <<>>
    /\ readOf[1].data # <<>>
    /\ result = [status |-> "Ok", value |-> readOf[1]]

(***************************************************************************)
(* Properties of the loop and of the handling of one event                 *)
(***************************************************************************)
\* C11: no failure while handling one request ends the dispatcher loop: whatever
\* the request and whatever its producer does (an error return, zero items, a
\* panic), the loop task is either running or was stopped by the completion of
\* the engine task.
C11_FailureNeverEndsLoop ==
    IsRequest(cur) =>
        /\ loop \in {"Running", "Stopped"}
        /\ loop = "Stopped" => engineDone

\* C12: a slow list request does not stall the dispatcher: while its producer is
\* still running and another event is waiting, the loop can take that event.
C12_SlowListDoesNotStall ==
    (/\ IsListRequest(cur)
     /\ loop = "Running"
     /\ prod = "running"
     /\ received < MaxEvents)
    => ENABLED (\E kind \in IgnoredKinds : RecvIgnored(kind))

\* C13: once the engine task has completed the loop terminates: while it has not
\* stopped yet, a step of the loop, of the handler or of the producer can still
\* be taken (in every state, also in the middle of a handler), and once it is
\* Stopped nothing is handled any more and the engine is not started again.
C13_EngineEndStopsLoop ==
    /\ (engineDone /\ loop = "Running") => ENABLED Next
    /\ loop = "Stopped" => (engineDone /\ ~ ENABLED Next)

\* C14: peer gossip cannot crash the dispatcher: whatever the payload shape and
\* whatever header number of the full 64-bit range a block propagation carries,
\* handling it returns Ok without a panic and leaves the loop running.
C14_GossipNeverPanics ==
    [][\A nb \in NewBlocks :
          RecvBlockPropagation(nb) => (loop' = "Running" /\ retval' = "Ok")]_vars

\* a step of the headers arm or of its inline producer
HeadersStep ==
    \/ \E item \in Items : ProducerSend(item)
    \/ \E o \in Outcomes : HeadersHandlerReturn(o)
    \/ HeadersRecvSend

\* C15: a headers request whose producer emits n >= 1 items never blocks: in
\* every state of its handling a step of the arm or of its producer can be
\* taken, for n >= 2 as well as for n = 1, and the response sent is the first
\* item emitted.
C15_HeadersNeverBlock ==
    /\ (/\ cur.type = "Headers"
        /\ want >= 1
        /\ loop = "Running"
        /\ pc \in {"get_headers", "headers_recv"})
       => ENABLED HeadersStep
    /\ (cur.type = "Headers" /\ response # NoResponse)
       => response[1].items = <<pushed[1]>>

\* C16: backpressure bounds the memory of a list exchange: the channel never
\* holds more than one item, the producer has completed at most one send more
\* than the collector has taken, what was collected followed by what is in the
\* channel is what was sent, and when the collecting has ended the collected
\* list is the full result.
C16_ChannelHoldsAtMostOne ==
    /\ Len(chan) <= 1
    /\ IsListRequest(cur) =>
          /\ Len(pushed) <= Len(items) + 1
          /\ pushed = items \o chan
          /\ pc \in {"join", "send"} => items = pushed

\* the producer has one more item to send and waits, the channel being full
C16_Witness ==
    /\ IsListRequest(cur)
    /\ prod = "running"
    /\ Len(chan) = 1
    /\ Len(pushed) < want
    /\ ~ ENABLED (\E item \in Items : ProducerSend(item))

\* the payload is not a header payload, or its last part is not a header
NoUsableHeader(nb) ==
    \/ nb.variant # "Header"
    \/ nb.parts = <<>>
    \/ nb.parts[Len(nb.parts)].kind # "Header"

\* the handler returned Ok and touched neither the head, its readers nor a peer
ReturnedOkUntouched ==
    /\ retval' = "Ok"
    /\ loop' = loop
    /\ head' = head
    /\ published' = published
    /\ sent' = sent
    /\ response' = NoResponse

\* C17: an event without a usable header changes nothing: a block propagation
\* whose payload is not a header payload or carries no header part to look at,
\* a peer-connected event and a test event each return Ok, leave the head as it
\* is, notify no reader and send no response.
C17_NoHeaderNoChange ==
    [][/\ \A nb \in NewBlocks :
            (RecvBlockPropagation(nb) /\ NoUsableHeader(nb)) => ReturnedOkUntouched
       /\ \A kind \in IgnoredKinds :
            RecvIgnored(kind) => ReturnedOkUntouched]_vars

\* with the head set, a header payload ending in a non-header part was handled
C17_Witness ==
    /\ cur.type = "BlockPropagation"
    /\ cur.new_block.variant = "Header"
    /\ Len(cur.new_block.parts) = 2
    /\ NoUsableHeader(cur.new_block)
    /\ head # None
    /\ head[1].number < BlockNumberMAX
    /\ retval = "Ok"
    /\ loop = "Running"

(***************************************************************************)
(* Properties of start                                                     *)
(***************************************************************************)
\* the three steps of each bootstrap address from the i-th on, in order
RECURSIVE BootstrapCalls(_, _)
BootstrapCalls(addresses, i) ==
    IF i > Len(addresses) THEN <<>>
    ELSE <<Call("peer_id", i), Call("dial", i), Call("start_listening_relay", i)>>
         \o BootstrapCalls(addresses, i + 1)

\* the steps of a start that succeeds, in order
ExpectedCalls ==
    <<Call("start_listening", 0)>>
    \o BootstrapCalls(bootstrap_addresses, 1)
    \o (IF proxy THEN <<>> ELSE <<Call("subscribe_topic", 0)>>)
    \o <<Call("provide_capability", 1), Call("provide_capability", 2)>>

IsPrefix(s, t) == Len(s) <= Len(t) /\ SubSeq(t, 1, Len(s)) = s

\* C18: startup is sequential and stops at the first failure: the steps taken
\* are always a prefix of listen, then per bootstrap address peer id, dial and
\* relay listener, then subscribe (left out exactly for a proxy), then the
\* capabilities; the loop is spawned and events are handled only after all of
\* them succeeded; and after a failed step start has returned an error, takes no
\* further step and never spawns the loop.
C18_StartupSequential ==
    /\ [](/\ IsPrefix(calls, ExpectedCalls)
          /\ loop # "NotSpawned" => (started = "Ok" /\ calls = ExpectedCalls)
          /\ started = "Ok" => loop # "NotSpawned"
          /\ started = "Err" => (loop = "NotSpawned" /\ calls # <<>>)
          /\ received > 0 => started = "Ok")
    /\ [][started = "Err" =>
            (started' = "Err" /\ calls' = calls /\ loop' = "NotSpawned")]_vars

\* the second bootstrap address names no peer: start failed there, after the
\* first address was dialed and listened through, and spawned nothing
C18_Witness ==
    /\ started = "Err"
    /\ Len(bootstrap_addresses) = 2
    /\ calls[Len(calls)] = Call("peer_id", 2)
    /\ loop = "NotSpawned"
    /\ engineDone

(***************************************************************************)
(* Properties of the framing of responses                                  *)
(***************************************************************************)
\* a read_response has returned after it decoded a length prefix
ResponseReadDone == op = "read_response" /\ cpc = "done" /\ encoded_len >= 0

\* the bytes of one message: its prefix and the payload the prefix declares
FrameLen == BLen(Varint(encoded_len)) + encoded_len

\* the bytes the stream held when the read began
HeldAtBegin == consumed + BLen(io)

\* the read took exactly one message from a stream that held it, and took all
\* there was and failed with a transport error from a stream that ended early
TookOneFrame ==
    IF HeldAtBegin >= FrameLen
    THEN consumed = FrameLen /\ result.status # "Transport"
    ELSE io = <<>> /\ result = [status |-> "Transport", value |-> NoValue]

\* C19 as stated: read_response consumes exactly the prefix and the declared
\* payload, so each of several responses written back to back is read back by
\* its own read, in write order; a stream that ends before the declared payload
\* gives a transport error and no value.
C19_ReadsOneFrame ==
    ResponseReadDone =>
        /\ TookOneFrame
        /\ (clean /\ readOf # None) => result = [status |-> "Ok", value |-> readOf[1]]

\* C19 amended: the same for a declared length within the protocol's limit and,
\* for responses written back to back, as long as every earlier read succeeded.
C19_ReadsOneFrameWithinLimit ==
    (ResponseReadDone /\ encoded_len <= RESPONSE_SIZE_LIMIT(protocol)) =>
        /\ TookOneFrame
        /\ (clean /\ synced /\ readOf # None)
           => result = [status |-> "Ok", value |-> readOf[1]]

\* the first of two responses written back to back was read: the second one is
\* all that is left in the stream
C19_Witness ==
    /\ ResponseReadDone
    /\ clean
    /\ nwritten = 2
    /\ Len(written) = 1
    /\ consumed = FrameLen
    /\ io = ResponseBytes(written[1])
    /\ result = [status |-> "Ok", value |-> readOf[1]]

(***************************************************************************)
(* Properties of the reading of requests                                   *)
(***************************************************************************)
\* a read_request has returned
RequestReadDone == op = "read_request" /\ cpc = "done"

\* the stream as it was when the read began: what was taken and what is left
StreamAtBegin == Cat(buf, io)

\* C20: read_request has no size-limit error: of a stream longer than 1 MiB it
\* takes the first 1 MiB without any error of its own and decodes that, so
\* what it returns is the decoding of the first 1 MiB of the stream, whatever
\* follows.
C20_RequestCutAtOneMiB ==
    RequestReadDone =>
        /\ result.status \in {"Ok", "DecodeError"}
        /\ result = DecodeDto(BTake(StreamAtBegin, 1048576))

\* a request of exactly 1 MiB followed by another 1 MiB of bytes: the request is
\* returned, the bytes that follow are left in the stream
C20_Witness ==
    /\ RequestReadDone
    /\ ~ clean
    /\ BLen(buf) = 1048576
    /\ BLen(io) = 1048576
    /\ result.status = "Ok"
    /\ RequestBytes(result.value) = buf

====
